---- MODULE Spec2Model ----
(***************************************************************************)
(* A model of the PoA lock script of clerkb (c/poa.c): the Configuration   *)
(* decoder, the two signing checks, the cell locator and the validator     *)
(* main().  Byte buffers are sequences of naturals 0..255, a lock hash is  *)
(* a sequence of 32 bytes, 1-based in TLA+ where C is 0-based.             *)
(***************************************************************************)
EXTENDS Integers, Sequences, FiniteSets, TLC

VARIABLES
    codec_tuple,   \* the Configuration field tuple a buffer was encoded from
    codec_buf,     \* source_data / source_length handed to parse_poa_setup
    codec_out,     \* [done, ret, setup]: what parse_poa_setup returned
    sig_in,        \* the arguments and the inputs' lock hashes of a signing check
    sig,           \* the locals of the signing check's loop, and its result
    cfg_data,      \* data of the cell whose type id is config_ref (on chain)
    prev_data,     \* data of the cell whose type id is state_ref (on chain)
    tx,            \* the transaction under validation, as far as main read it
    poa_setup,     \* main's local poa_setup, once a Configuration is decoded
    pc,            \* where main is
    ret,           \* main's return value, once pc = "done"
    loc_in,        \* the target and the cells of a side look_for_poa_cell scans
    loc_out,       \* [done, ret, index]: what look_for_poa_cell returned
    chain,         \* a chain of accepted block productions: its last two RoundStates
    gen_in,        \* what the generator queried: Configuration, RoundState, time
    gen_out,       \* the generator's decision and the transition it built
    wide           \* one block production's timing checks on 64-bit words

codec_vars == <<codec_tuple, codec_buf, codec_out>>
sig_vars == <<sig_in, sig>>
main_vars == <<cfg_data, prev_data, tx, poa_setup, pc, ret>>
loc_vars == <<loc_in, loc_out>>
gen_vars == <<gen_in, gen_out>>
more_vars == <<loc_in, loc_out, chain, gen_in, gen_out, wide>>
vars == <<codec_tuple, codec_buf, codec_out, sig_in, sig,
          cfg_data, prev_data, tx, poa_setup, pc, ret,
          loc_in, loc_out, chain, gen_in, gen_out, wide>>

----------------------------------------------------------------------------
(* Program constants.                                                      *)

CKB_SUCCESS == 0
CKB_INDEX_OUT_OF_BOUND == 1
CKB_ITEM_MISSING == 2
CKB_LENGTH_NOT_ENOUGH == 3
ERROR_TRANSACTION == -1
ERROR_ENCODING == -2
IDENTITY_SIZE == 32
POA_BUFFER_SIZE == 16384
SCRIPT_BUFFER_SIZE == 128

\* A result slot that holds no return value yet.
NO_RET == 99

----------------------------------------------------------------------------
(* Little-endian reads, as the pointer casts of parse_poa_setup and main   *)
(* perform them on the little-endian RISC-V target.                        *)

RECURSIVE ReadLE(_, _, _)
\* The unsigned integer stored in the n bytes of data from 0-based offset off.
ReadLE(data, off, n) ==
    IF n = 0 THEN 0
    ELSE data[off + 1] + 256 * ReadLE(data, off + 1, n - 1)

RECURSIVE WriteLE(_, _)
\* The n bytes of the little-endian encoding of v.
WriteLE(v, n) ==
    IF n = 0 THEN <<>>
    ELSE <<v % 256>> \o WriteLE(v \div 256, n - 1)

\* The same read with the most significant byte first (a wrong byte order).
RECURSIVE ReadBE(_, _, _)
ReadBE(data, off, n) ==
    IF n = 0 THEN 0
    ELSE ReadBE(data, off, n - 1) * 256 + data[off + n]

ReadU32BE(data, off) == ReadBE(data, off, 4)

\* *((uint32_t *)(&source_data[off]))
ReadU32(data, off) == ReadLE(data, off, 4)

----------------------------------------------------------------------------
(* parse_poa_setup                                                         *)

\* The PoASetup struct; identities is the view &source_data[12].
PoASetup(data) ==
    [ interval_uses_seconds       |-> IF data[1] % 2 = 1 THEN 1 ELSE 0,
      identity_size               |-> data[2],
      aggregator_number           |-> data[3],
      aggregator_change_threshold |-> data[4],
      subblock_intervals          |-> ReadU32(data, 4),
      subblocks_per_interval      |-> ReadU32(data, 8),
      identities                  |-> SubSeq(data, 13, Len(data)) ]

NoSetup == [ interval_uses_seconds |-> 0, identity_size |-> 0,
             aggregator_number |-> 0, aggregator_change_threshold |-> 0,
             subblock_intervals |-> 0, subblocks_per_interval |-> 0,
             identities |-> <<>> ]

\* int parse_poa_setup(source_data, source_length, output): the return value
\* and the struct it filled (untouched when the buffer is shorter than 12).
parse_poa_setup(source_data) ==
    IF Len(source_data) < 12
    THEN [ret |-> ERROR_ENCODING, setup |-> NoSetup]
    ELSE LET output == PoASetup(source_data) IN
         IF output.identity_size > IDENTITY_SIZE
         THEN [ret |-> ERROR_ENCODING, setup |-> output]
         ELSE IF output.aggregator_change_threshold > output.aggregator_number
         THEN [ret |-> ERROR_ENCODING, setup |-> output]
         ELSE IF Len(source_data) /=
                 12 + output.identity_size * output.aggregator_number
         THEN [ret |-> ERROR_ENCODING, setup |-> output]
         ELSE [ret |-> CKB_SUCCESS, setup |-> output]

\* The Configuration wire format: flag, identity size, aggregator count,
\* change threshold, two 32-bit little-endian words, then the identities.
EncodeSetup(t) ==
    << t.interval_uses_seconds, t.identity_size, t.aggregator_number,
       t.aggregator_change_threshold >>
    \o WriteLE(t.subblock_intervals, 4)
    \o WriteLE(t.subblocks_per_interval, 4)
    \o t.identities

----------------------------------------------------------------------------
(* The signing checks.  reads is what ckb_load_cell_by_field(..., current,  *)
(* CKB_SOURCE_INPUT, CKB_CELL_FIELD_LOCK_HASH) returns for current = 0, 1,  *)
(* ...: one [ret, hash] per input; past the last input the host returns    *)
(* CKB_INDEX_OUT_OF_BOUND.                                                 *)

\* memcmp(hash, &identity_buffer[i * identity_size], identity_size) == 0
IdentityAt(identity_buffer, identity_size, i) ==
    SubSeq(identity_buffer, i * identity_size + 1, (i + 1) * identity_size)

HashMatches(hash, identity_buffer, identity_size, i) ==
    SubSeq(hash, 1, identity_size)
        = IdentityAt(identity_buffer, identity_size, i)

\* The 256 bits of uint64_t mask[4] as the set of the bit numbers that are
\* set: bit b of mask[w] is the number 64 * w + b.
\* ((mask[i / 64] >> (i % 64)) & 1) != 0
MaskBit(mask, i) == (64 * (i \div 64) + (i % 64)) \in mask

\* The bits of (uint64_t)(1 << s) for the int constant 1 and 0 <= s < 64.
\* Up to s = 30 the shift is defined.  At s = 31 the result is INT_MIN, which
\* the conversion to uint64_t sign-extends.  From s = 32 on the shift count
\* reaches the width of int and the behaviour is undefined; the builds
\* differ: a 32-bit shift instruction (RISC-V sllw, x86 shl) uses the count
\* modulo 32 ("sllw"), a 64-bit shift followed by a sign extension of the
\* low word leaves nothing ("sll").
IntShiftBits(s, ub) ==
    IF s <= 30 THEN {s}
    ELSE IF s = 31 THEN 31..63
    ELSE IF ub = "sllw"
         THEN (IF s % 32 = 31 THEN 31..63 ELSE {s % 32})
         ELSE {}

\* mask[i / 64] |= 1 << (i % 64)
MaskOr(mask, i, ub) ==
    mask \cup { 64 * (i \div 64) + b : b \in IntShiftBits(i % 64, ub) }

\* The inner for loop: the first identity not yet marked in the mask that
\* the hash matches, or identity_count when there is none.
FirstUncredited(mask, hash, a) ==
    LET hit == { i \in 0..(a.identity_count - 1) :
                    /\ ~MaskBit(mask, i)
                    /\ HashMatches(hash, a.identity_buffer, a.identity_size, i) }
    IN IF hit = {} THEN a.identity_count
       ELSE CHOOSE i \in hit : \A j \in hit : i <= j

SigStart ==
    [current |-> 0, found |-> 0, mask |-> {}, done |-> FALSE, ret |-> NO_RET]

\* One iteration of the while loop of validate_consensus_signing, from the
\* load of input `current` to current++, the two returns included.
consensus_iteration(s, a, reads, ub) ==
    IF s.current >= Len(reads)
    THEN [s EXCEPT !.done = TRUE, !.ret = ERROR_ENCODING]
    ELSE LET r == reads[s.current + 1] IN
         IF r.ret /= CKB_SUCCESS
         THEN [s EXCEPT !.done = TRUE, !.ret = r.ret]
         ELSE LET found_identity == FirstUncredited(s.mask, r.hash, a) IN
              IF found_identity < a.identity_count
              THEN LET found == (s.found + 1) % 256 IN
                   IF found = a.aggregator_change_threshold
                   THEN [s EXCEPT !.found = found, !.done = TRUE,
                                  !.ret = CKB_SUCCESS]
                   ELSE [s EXCEPT !.found = found,
                                  !.mask = MaskOr(s.mask, found_identity, ub),
                                  !.current = s.current + 1]
              ELSE [s EXCEPT !.current = s.current + 1]

RECURSIVE ConsensusLoop(_, _, _, _)
ConsensusLoop(s, a, reads, ub) ==
    IF s.done THEN s
    ELSE ConsensusLoop(consensus_iteration(s, a, reads, ub), a, reads, ub)

\* int validate_consensus_signing(identity_buffer, identity_size,
\*                                identity_count, aggregator_change_threshold)
validate_consensus_signing(a, reads, ub) ==
    ConsensusLoop(SigStart, a, reads, ub).ret

\* The comparison of the whole 32-byte hash, whatever identity_size is.
SingleMatchesWhole(hash, identity, identity_size) ==
    hash = identity

\* memcmp(hash, identity, identity_size) == 0
SingleMatches(hash, identity, identity_size) ==
    SubSeq(hash, 1, identity_size) = identity

\* One iteration of the while loop of validate_single_signing.
single_iteration(s, identity, identity_size, reads) ==
    IF s.current >= Len(reads)
    THEN [s EXCEPT !.done = TRUE, !.ret = ERROR_ENCODING]
    ELSE LET r == reads[s.current + 1] IN
         IF r.ret /= CKB_SUCCESS
         THEN [s EXCEPT !.done = TRUE, !.ret = r.ret]
         ELSE IF SingleMatches(r.hash, identity, identity_size)
         THEN [s EXCEPT !.done = TRUE, !.ret = CKB_SUCCESS]
         ELSE [s EXCEPT !.current = s.current + 1]

RECURSIVE SingleLoop(_, _, _, _)
SingleLoop(s, identity, identity_size, reads) ==
    IF s.done THEN s
    ELSE SingleLoop(single_iteration(s, identity, identity_size, reads),
                    identity, identity_size, reads)

\* int validate_single_signing(identity, identity_size)
validate_single_signing(identity, identity_size, reads) ==
    SingleLoop(SigStart, identity, identity_size, reads).ret

----------------------------------------------------------------------------
(* The cell locator.  reads is what ckb_load_cell_by_field(..., current,    *)
(* source, CKB_CELL_FIELD_TYPE) returns for current = 0, 1, ...: one       *)
(* [ret, len, prefix, args] per cell, where prefix says whether the first  *)
(* 53 bytes of the script are type_id_script_prefix and args is the 32     *)
(* bytes after them; past the last cell the host returns                   *)
(* CKB_INDEX_OUT_OF_BOUND.                                                 *)

\* found_index == SIZE_MAX: nothing found yet ((size_t) -1).
SIZE_MAX == -1

NoType == [ret |-> CKB_ITEM_MISSING, len |-> 0, prefix |-> "none",
           args |-> "none"]
TypeId(ref) == [ret |-> CKB_SUCCESS, len |-> 85, prefix |-> "type_id",
                args |-> ref]

\* The match test without the comparison of the 53-byte prefix.
IsPoaCellNoPrefix(r, type_id) ==
    r.len = 85 /\ r.args = type_id

\* len == 85 && memcmp(type_id_script_prefix, script, 53) == 0 &&
\* memcmp(type_id, &script[53], 32) == 0
IsPoaCell(r, type_id) ==
    r.len = 85 /\ r.prefix = "type_id" /\ r.args = type_id

RECURSIVE LookLoop(_, _, _, _)
\* The while loop of look_for_poa_cell and the return after it.
LookLoop(type_id, reads, current, found_index) ==
    LET end == IF found_index = SIZE_MAX
               THEN [ret |-> CKB_INDEX_OUT_OF_BOUND, index |-> SIZE_MAX]
               ELSE [ret |-> CKB_SUCCESS, index |-> found_index]
    IN
    IF current >= Len(reads) THEN end
    ELSE LET r == reads[current + 1] IN
         IF r.ret = CKB_ITEM_MISSING
         THEN LookLoop(type_id, reads, current + 1, found_index)
         ELSE IF r.ret = CKB_SUCCESS
         THEN IF IsPoaCell(r, type_id)
              THEN IF found_index /= SIZE_MAX
                   THEN [ret |-> ERROR_ENCODING, index |-> SIZE_MAX]
                   ELSE LookLoop(type_id, reads, current + 1, current)
              ELSE LookLoop(type_id, reads, current + 1, found_index)
         ELSE end

\* int look_for_poa_cell(type_id, source, index)
look_for_poa_cell(type_id, reads) == LookLoop(type_id, reads, 0, SIZE_MAX)

----------------------------------------------------------------------------
(* main: the RoundState record, the time lock and the transition rules.    *)
(* Times are below 2^56 (what a since value can hold) and indices below    *)
(* 2^31, so none of the 64-bit and 32-bit sums below wraps around; the one *)
(* subtraction that can wrap (in StepsBetween) is computed modulo 2^64.    *)

\* The four pointer-cast reads of a 22-byte RoundState buffer.
RoundState(data) ==
    [ round_initial_subtime |-> ReadLE(data, 0, 8),
      subblock_subtime      |-> ReadLE(data, 8, 8),
      subblock_index        |-> ReadLE(data, 16, 4),
      aggregator_index      |-> ReadLE(data, 20, 2) ]

\* A 22-byte cell data in which each field main reads has its lowest byte
\* set (fields below 256) and the other bytes zero.
RoundStateData(r) ==
    <<r.round_initial_subtime, 0, 0, 0, 0, 0, 0, 0>>
    \o <<r.subblock_subtime, 0, 0, 0, 0, 0, 0, 0>>
    \o <<r.subblock_index, 0, 0, 0>> \o <<r.aggregator_index, 0>>

\* A since value is [flag, value]: the uint64 flag * 2^56 + value, so that
\* since >> 56 is flag and since & 0x00FFFFFFFFFFFFFF is value.
SINCE_TIMESTAMP == 64

\* The flag test asks for 0x40 whatever the Configuration says.
SinceFlagWantedAlwaysTimestamp(setup) == SINCE_TIMESTAMP

\* The top byte main asks for: 0x40 with interval_uses_seconds, else 0.
SinceFlagWanted(setup) ==
    IF setup.interval_uses_seconds = 1 THEN SINCE_TIMESTAMP ELSE 0

\* The since checks without the comparison of the value.
since_check_flag_only(setup, since, current) ==
    IF since.flag /= SinceFlagWanted(setup) THEN ERROR_ENCODING
    ELSE CKB_SUCCESS

\* Lines 340-355: the since checks.
since_check(setup, since, current) ==
    IF since.flag /= SinceFlagWanted(setup) THEN ERROR_ENCODING
    ELSE IF current.subblock_subtime /= since.value THEN ERROR_ENCODING
    ELSE CKB_SUCCESS

RECURSIVE Pow2Mod(_, _)
\* 2^e modulo n.
Pow2Mod(e, n) == IF e = 0 THEN 1 % n ELSE (2 * Pow2Mod(e - 1, n)) % n

\* steps with the zero left as it is.
StepsBetweenZero(current_aggregator_index, aggregator_number, last_aggregator_index) ==
    (current_aggregator_index + aggregator_number - last_aggregator_index)
        % aggregator_number

\* Lines 392-398: steps, in uint64_t arithmetic: a difference below zero is
\* the difference plus 2^64.
StepsBetween(current_aggregator_index, aggregator_number, last_aggregator_index) ==
    LET d == current_aggregator_index + aggregator_number
                - last_aggregator_index
        steps == IF d >= 0 THEN d % aggregator_number
                 ELSE ((d % aggregator_number)
                        + Pow2Mod(64, aggregator_number)) % aggregator_number
    IN IF steps = 0 THEN aggregator_number ELSE steps

\* The same-round test without the monotonic-time check.
same_round_check_no_time(setup, last, current) ==
    IF current.round_initial_subtime /= last.round_initial_subtime
    THEN ERROR_ENCODING
    ELSE IF current.aggregator_index /= last.aggregator_index
    THEN ERROR_ENCODING
    ELSE IF \/ current.subblock_index /= last.subblock_index + 1
            \/ current.subblock_index >= setup.subblocks_per_interval
    THEN ERROR_ENCODING
    ELSE CKB_SUCCESS

\* Lines 363-381: the current aggregator is issuing blocks.
same_round_check(setup, last, current) ==
    IF current.round_initial_subtime /= last.round_initial_subtime
    THEN ERROR_ENCODING
    ELSE IF current.subblock_subtime < last.subblock_subtime
    THEN ERROR_ENCODING
    ELSE IF current.aggregator_index /= last.aggregator_index
    THEN ERROR_ENCODING
    ELSE IF \/ current.subblock_index /= last.subblock_index + 1
            \/ current.subblock_index >= setup.subblocks_per_interval
    THEN ERROR_ENCODING
    ELSE CKB_SUCCESS

\* The rollover test that wants the since later than the round's end.
rollover_check_strict(setup, last, current, since) ==
    IF current.round_initial_subtime /= current.subblock_subtime
    THEN ERROR_ENCODING
    ELSE IF current.subblock_index /= 0
    THEN ERROR_ENCODING
    ELSE LET steps == StepsBetween(current.aggregator_index,
                                   setup.aggregator_number,
                                   last.aggregator_index)
             duration == steps * setup.subblock_intervals
         IN IF since.value <= duration + last.round_initial_subtime
            THEN ERROR_ENCODING
            ELSE CKB_SUCCESS

\* The rollover test with one interval as the duration, whatever steps is.
rollover_check_one_step(setup, last, current, since) ==
    IF current.round_initial_subtime /= current.subblock_subtime
    THEN ERROR_ENCODING
    ELSE IF current.subblock_index /= 0
    THEN ERROR_ENCODING
    ELSE IF since.value < setup.subblock_intervals + last.round_initial_subtime
    THEN ERROR_ENCODING
    ELSE CKB_SUCCESS

\* Lines 383-403: the next aggregator is in place.
rollover_check(setup, last, current, since) ==
    IF current.round_initial_subtime /= current.subblock_subtime
    THEN ERROR_ENCODING
    ELSE IF current.subblock_index /= 0
    THEN ERROR_ENCODING
    ELSE LET steps == StepsBetween(current.aggregator_index,
                                   setup.aggregator_number,
                                   last.aggregator_index)
             duration == steps * setup.subblock_intervals
         IN IF since.value < duration + last.round_initial_subtime
            THEN ERROR_ENCODING
            ELSE CKB_SUCCESS

\* Lines 362-404: the two supporting modes.
transition_check(setup, last, current, since) ==
    IF since.value < last.round_initial_subtime + setup.subblock_intervals
    THEN same_round_check(setup, last, current)
    ELSE rollover_check(setup, last, current, since)

\* The range check that lets the index one past the last aggregator through.
aggregator_index_check_past_end(setup, current) ==
    IF current.aggregator_index > setup.aggregator_number
    THEN ERROR_ENCODING
    ELSE CKB_SUCCESS

\* Lines 322-325: the new aggregator is one of the Configuration's.
aggregator_index_check(setup, current) ==
    IF current.aggregator_index >= setup.aggregator_number
    THEN ERROR_ENCODING
    ELSE CKB_SUCCESS

\* Lines 322-409: block production once the Configuration and the two
\* RoundStates are loaded, down to the return of validate_single_signing.
block_production(setup, last, current, since, locks) ==
    IF aggregator_index_check(setup, current) /= CKB_SUCCESS
    THEN ERROR_ENCODING
    ELSE IF since_check(setup, since, current) /= CKB_SUCCESS
    THEN ERROR_ENCODING
    ELSE IF transition_check(setup, last, current, since) /= CKB_SUCCESS
    THEN ERROR_ENCODING
    ELSE validate_single_signing(
             IdentityAt(setup.identities, setup.identity_size,
                        current.aggregator_index),
             setup.identity_size, locks)

\* What validate_consensus_signing is given of a Configuration.
ConsensusArgs(setup) ==
    [ identity_buffer |-> setup.identities,
      identity_size |-> setup.identity_size,
      identity_count |-> setup.aggregator_number,
      aggregator_change_threshold |-> setup.aggregator_change_threshold ]

\* The authority-set change that asks the threshold of the new
\* Configuration to sign.
authority_change_new_signs(old_data, inputs, outputs, new_data, locks, ub) ==
    IF look_for_poa_cell("config_ref", inputs).ret /= CKB_SUCCESS
    THEN look_for_poa_cell("config_ref", inputs).ret
    ELSE IF Len(old_data) > POA_BUFFER_SIZE THEN ERROR_ENCODING
    ELSE IF parse_poa_setup(old_data).ret /= CKB_SUCCESS
    THEN parse_poa_setup(old_data).ret
    ELSE IF look_for_poa_cell("config_ref", outputs).ret /= CKB_SUCCESS
    THEN look_for_poa_cell("config_ref", outputs).ret
    ELSE IF Len(new_data) > POA_BUFFER_SIZE THEN ERROR_ENCODING
    ELSE IF parse_poa_setup(new_data).ret /= CKB_SUCCESS
    THEN parse_poa_setup(new_data).ret
    ELSE validate_consensus_signing(
             ConsensusArgs(parse_poa_setup(new_data).setup), locks, ub)

\* Lines 411-462: the authority-set change, from the search of the
\* Configuration among the inputs to the return of
\* validate_consensus_signing.
authority_change(old_data, inputs, outputs, new_data, locks, ub) ==
    IF look_for_poa_cell("config_ref", inputs).ret /= CKB_SUCCESS
    THEN look_for_poa_cell("config_ref", inputs).ret
    ELSE IF Len(old_data) > POA_BUFFER_SIZE THEN ERROR_ENCODING
    ELSE IF parse_poa_setup(old_data).ret /= CKB_SUCCESS
    THEN parse_poa_setup(old_data).ret
    ELSE IF look_for_poa_cell("config_ref", outputs).ret /= CKB_SUCCESS
    THEN look_for_poa_cell("config_ref", outputs).ret
    ELSE IF Len(new_data) > POA_BUFFER_SIZE THEN ERROR_ENCODING
    ELSE IF parse_poa_setup(new_data).ret /= CKB_SUCCESS
    THEN parse_poa_setup(new_data).ret
    ELSE validate_consensus_signing(
             ConsensusArgs(parse_poa_setup(old_data).setup), locks, ub)

----------------------------------------------------------------------------
(* The time lock and the transition rules at the width of the code.  A     *)
(* uint64_t or uint32_t is the sequence of its four 16-bit limbs, the      *)
(* least significant first (the two upper limbs of a uint32_t are 0);      *)
(* aggregator indices and counts (uint16_t, uint8_t) are integers.         *)

LimbBase == 65536

\* The value v < 2^31 as a word.
Word(v) == <<v % LimbBase, (v \div LimbBase) % LimbBase, 0, 0>>

\* 2^32 - 1, 2^32 - 2, 2^56 - 1, 2^56, 2^64 - 1.
WordMax32 == <<LimbBase - 1, LimbBase - 1, 0, 0>>
WordMax32Less1 == <<LimbBase - 2, LimbBase - 1, 0, 0>>
WordMax56 == <<LimbBase - 1, LimbBase - 1, LimbBase - 1, 255>>
WordTwo56 == <<0, 0, 0, 256>>
WordMax64 == <<LimbBase - 1, LimbBase - 1, LimbBase - 1, LimbBase - 1>>

\* a < b, unsigned.
LessWord(a, b) ==
    \/ a[4] < b[4]
    \/ a[4] = b[4] /\ a[3] < b[3]
    \/ a[4] = b[4] /\ a[3] = b[3] /\ a[2] < b[2]
    \/ a[4] = b[4] /\ a[3] = b[3] /\ a[2] = b[2] /\ a[1] < b[1]

\* The sum that wraps at 2^56 and not at 2^64.
Add56(a, b) ==
    LET s1 == a[1] + b[1]
        s2 == a[2] + b[2] + s1 \div LimbBase
        s3 == a[3] + b[3] + s2 \div LimbBase
        s4 == a[4] + b[4] + s3 \div LimbBase
    IN [ val |-> <<s1 % LimbBase, s2 % LimbBase, s3 % LimbBase, s4 % 256>>,
         carry |-> s4 \div 256 ]

\* a + b in uint64_t: the sum modulo 2^64, and the carry out of it.
Add64(a, b) ==
    LET s1 == a[1] + b[1]
        s2 == a[2] + b[2] + s1 \div LimbBase
        s3 == a[3] + b[3] + s2 \div LimbBase
        s4 == a[4] + b[4] + s3 \div LimbBase
    IN [ val |-> <<s1 % LimbBase, s2 % LimbBase, s3 % LimbBase,
                   s4 % LimbBase>>,
         carry |-> s4 \div LimbBase ]

\* a + b in uint32_t: the sum modulo 2^32, and the carry out of it.
Add32(a, b) ==
    LET s1 == a[1] + b[1]
        s2 == a[2] + b[2] + s1 \div LimbBase
    IN [ val |-> <<s1 % LimbBase, s2 % LimbBase, 0, 0>>,
         carry |-> s2 \div LimbBase ]

\* a - b in uint64_t: the difference modulo 2^64, and the borrow.
Sub64(a, b) ==
    LET d1 == a[1] - b[1]
        b1 == IF d1 < 0 THEN 1 ELSE 0
        d2 == a[2] - b[2] - b1
        b2 == IF d2 < 0 THEN 1 ELSE 0
        d3 == a[3] - b[3] - b2
        b3 == IF d3 < 0 THEN 1 ELSE 0
        d4 == a[4] - b[4] - b3
        b4 == IF d4 < 0 THEN 1 ELSE 0
    IN [ val |-> <<d1 + b1 * LimbBase, d2 + b2 * LimbBase,
                   d3 + b3 * LimbBase, d4 + b4 * LimbBase>>,
         borrow |-> b4 ]

\* k * a in uint64_t for k < 2^15: the product modulo 2^64, and the carry.
Mul64(k, a) ==
    LET p1 == k * a[1]
        p2 == k * a[2] + p1 \div LimbBase
        p3 == k * a[3] + p2 \div LimbBase
        p4 == k * a[4] + p3 \div LimbBase
    IN [ val |-> <<p1 % LimbBase, p2 % LimbBase, p3 % LimbBase,
                   p4 % LimbBase>>,
         carry |-> p4 \div LimbBase ]

\* since >> 56
SinceTopByte(since) == since[4] \div 256

\* since &= 0x00FFFFFFFFFFFFFF
SinceMasked(since) == <<since[1], since[2], since[3], since[4] % 256>>

\* Lines 340-355 on words: the since checks.
since_check_word(setup, since, current) ==
    IF SinceTopByte(since) /= SinceFlagWanted(setup) THEN ERROR_ENCODING
    ELSE IF current.subblock_subtime /= SinceMasked(since) THEN ERROR_ENCODING
    ELSE CKB_SUCCESS

\* Line 362 on words: since < last_round_initial_subtime + subblock_intervals.
InSameRoundWord(setup, last, since) ==
    LessWord(since, Add64(last.round_initial_subtime,
                          setup.subblock_intervals).val)

\* Lines 363-381 on words.
same_round_check_word(setup, last, current) ==
    IF current.round_initial_subtime /= last.round_initial_subtime
    THEN ERROR_ENCODING
    ELSE IF LessWord(current.subblock_subtime, last.subblock_subtime)
    THEN ERROR_ENCODING
    ELSE IF current.aggregator_index /= last.aggregator_index
    THEN ERROR_ENCODING
    ELSE IF \/ current.subblock_index
                 /= Add32(last.subblock_index, Word(1)).val
            \/ ~LessWord(current.subblock_index,
                         setup.subblocks_per_interval)
    THEN ERROR_ENCODING
    ELSE CKB_SUCCESS

\* Lines 399: duration = steps * subblock_intervals.
DurationWord(setup, last, current) ==
    Mul64(StepsBetween(current.aggregator_index, setup.aggregator_number,
                       last.aggregator_index),
          setup.subblock_intervals)

\* Lines 383-403 on words.
rollover_check_word(setup, last, current, since) ==
    IF current.round_initial_subtime /= current.subblock_subtime
    THEN ERROR_ENCODING
    ELSE IF current.subblock_index /= Word(0)
    THEN ERROR_ENCODING
    ELSE IF LessWord(since, Add64(DurationWord(setup, last, current).val,
                                  last.round_initial_subtime).val)
    THEN ERROR_ENCODING
    ELSE CKB_SUCCESS

\* Lines 322-404 on words, the since as it is loaded.
timing_word(setup, last, current, since) ==
    IF aggregator_index_check(setup, current) /= CKB_SUCCESS
    THEN ERROR_ENCODING
    ELSE IF since_check_word(setup, since, current) /= CKB_SUCCESS
    THEN ERROR_ENCODING
    ELSE IF InSameRoundWord(setup, last, SinceMasked(since))
    THEN same_round_check_word(setup, last, current)
    ELSE rollover_check_word(setup, last, current, SinceMasked(since))

----------------------------------------------------------------------------
(* Bounds of the model.                                                    *)

\* A transaction has 1..MaxGroup inputs and 0..MaxGroup outputs guarded by
\* the validated script.
MaxGroup == 2
\* Times (timestamps or block numbers) of the transactions are 0..MaxTime,
\* those of the RoundState on chain 0..MaxPrevTime.
MaxTime == 4
MaxPrevTime == 1
\* Configurations of the decoder's inputs hold 0..MaxCodecCount identities.
MaxCodecCount == 2
\* The signing checks scan 1..MaxSigInputs inputs.
MaxSigInputs == 3
\* Identity lists of the signing checks: 1..SmallCount identities, and
\* LargeCount identities (index 31 and index 32 exist: the indices where the
\* shift of the mask update leaves the range of int).
SmallCount == 2
LargeCount == 33

----------------------------------------------------------------------------
(* The transaction, as far as main has read it.                            *)

TxUnread ==
    [ group_inputs |-> 0, group_outputs |-> 0, args_len |-> 0,
      deps |-> <<>>, inputs |-> <<>>, outputs |-> <<>>, out_data |-> <<>>,
      since |-> [flag |-> 0, value |-> 0], locks |-> <<>> ]

\* The locator, the chain and the generator at rest.
LocInIdle == [type_id |-> "none"]
LocOutIdle == [done |-> TRUE, ret |-> NO_RET, index |-> SIZE_MAX]
ChainIdle == [on |-> FALSE]
GenInIdle == [on |-> FALSE]
GenOutIdle == [done |-> TRUE]
WideIdle == [on |-> FALSE]

MoreIdle ==
    /\ loc_in = LocInIdle
    /\ loc_out = LocOutIdle
    /\ chain = ChainIdle
    /\ gen_in = GenInIdle
    /\ gen_out = GenOutIdle
    /\ wide = WideIdle

MainIdle ==
    /\ cfg_data = <<>>
    /\ prev_data = <<>>
    /\ tx = TxUnread
    /\ poa_setup = NoSetup
    /\ pc = "idle"
    /\ ret = NO_RET

----------------------------------------------------------------------------
(* The decoder alone: a buffer is drawn, parse_poa_setup decodes it.       *)

Fill(n) == [i \in 1..n |-> i % 256]

CodecTuples ==
    [ interval_uses_seconds       : {0, 1},
      identity_size               : {0, 1, 2, 32, 33},
      aggregator_number           : 0..MaxCodecCount,
      aggregator_change_threshold : 0..(MaxCodecCount + 1),
      subblock_intervals          : {1, 258, 16909060},
      subblocks_per_interval      : {0, 2, 66000},
      cut                         : {"whole", "short", "long", "head"} ]

\* The buffer of a tuple: its encoding, one byte short, one byte long, or
\* only the first 11 bytes.
CodecBuffer(t) ==
    LET whole == EncodeSetup([t EXCEPT !.cut = "whole"]
                    @@ [identities |->
                          Fill(t.identity_size * t.aggregator_number)]) IN
    CASE t.cut = "whole" -> whole
      [] t.cut = "short" -> SubSeq(whole, 1, Len(whole) - 1)
      [] t.cut = "long"  -> whole \o <<7>>
      [] t.cut = "head"  -> SubSeq(whole, 1, 11)

NoTuple == [cut |-> "none"]
CodecIdle == [done |-> TRUE, ret |-> NO_RET, setup |-> NoSetup]
SigInIdle == [fn |-> "none"]
SigIdle == [SigStart EXCEPT !.done = TRUE]

CodecInit ==
    /\ codec_tuple \in CodecTuples
    /\ codec_buf = CodecBuffer(codec_tuple)
    /\ codec_out = [done |-> FALSE, ret |-> NO_RET, setup |-> NoSetup]
    /\ sig_in = SigInIdle
    /\ sig = SigIdle
    /\ MainIdle
    /\ MoreIdle

ParseSetup ==
    /\ ~codec_out.done
    /\ LET r == parse_poa_setup(codec_buf) IN
       codec_out' = [done |-> TRUE, ret |-> r.ret, setup |-> r.setup]
    /\ UNCHANGED <<more_vars, codec_tuple, codec_buf, sig_vars, main_vars>>

CodecNext == ParseSetup

SpecCodec == CodecInit /\ [][CodecNext]_vars

----------------------------------------------------------------------------
(* The cell locator alone: a target and the cells of one side are drawn,   *)
(* look_for_poa_cell scans them.                                           *)

\* A side holds 0..MaxSide cells.
MaxSide == 3

\* An 85-byte script that is no type-id script, a script of another length,
\* and a read of the type script that fails.
OtherScript85 == [ret |-> CKB_SUCCESS, len |-> 85, prefix |-> "other",
                   args |-> "config_ref"]
OtherScript86 == [ret |-> CKB_SUCCESS, len |-> 86, prefix |-> "other",
                   args |-> "config_ref"]
TypeReadFails == [ret |-> CKB_LENGTH_NOT_ENOUGH, len |-> 0, prefix |-> "none",
                   args |-> "none"]

LocCells == { NoType, TypeId("config_ref"), TypeId("state_ref"),
              OtherScript85, OtherScript86, TypeReadFails }

RECURSIVE SeqsFromZero(_, _)
\* The sequences over S of length 0..n.
SeqsFromZero(S, n) ==
    IF n = 0 THEN { <<>> }
    ELSE LET shorter == SeqsFromZero(S, n - 1) IN
         shorter \cup { q \o <<x>> : q \in { r \in shorter : Len(r) = n - 1 },
                                     x \in S }

LocInit ==
    /\ loc_in \in [ type_id : {"config_ref", "state_ref"},
                    reads : SeqsFromZero(LocCells, MaxSide) ]
    /\ loc_out = [done |-> FALSE, ret |-> NO_RET, index |-> SIZE_MAX]
    /\ chain = ChainIdle
    /\ gen_in = GenInIdle
    /\ gen_out = GenOutIdle
    /\ wide = WideIdle
    /\ codec_tuple = NoTuple
    /\ codec_buf = <<>>
    /\ codec_out = CodecIdle
    /\ sig_in = SigInIdle
    /\ sig = SigIdle
    /\ MainIdle

Locate ==
    /\ ~loc_out.done
    /\ LET r == look_for_poa_cell(loc_in.type_id, loc_in.reads) IN
       loc_out' = [done |-> TRUE, ret |-> r.ret, index |-> r.index]
    /\ UNCHANGED <<loc_in, chain, gen_vars, wide, codec_vars, sig_vars, main_vars>>

LocNext == Locate

SpecLocate == LocInit /\ [][LocNext]_vars

----------------------------------------------------------------------------
(* The signing checks alone: the arguments and the inputs' lock hashes are *)
(* drawn, then the loop runs one iteration per step.                       *)

\* A 32-byte lock hash whose first byte is b (the rest is zero).
Hash(b) == [i \in 1..32 |-> IF i = 1 THEN b ELSE 0]

\* A list of n one-byte identities: identity i is the byte i + 1.
Identities(n) == [i \in 1..n |-> i]

ReadOk(b) == [ret |-> CKB_SUCCESS, hash |-> Hash(b)]
ReadFails == [ret |-> CKB_LENGTH_NOT_ENOUGH, hash |-> Hash(0)]

\* Lock hashes matching identity 0, 1, 31 and 32 (where these exist), and a
\* failing read.
SigReads == { ReadOk(1), ReadOk(2), ReadOk(32), ReadOk(33), ReadFails }

RECURSIVE SeqsUpTo(_, _)
\* The sequences over S of length 1..n.
SeqsUpTo(S, n) ==
    IF n = 0 THEN {}
    ELSE LET shorter == SeqsUpTo(S, n - 1) IN
         { <<x>> : x \in S } \cup shorter
            \cup { q \o <<x>> : q \in { r \in shorter : Len(r) = n - 1 },
                                x \in S }

SigArgs ==
    { [ fn |-> f, identity_buffer |-> Identities(n), identity_size |-> 1,
        identity_count |-> n, aggregator_change_threshold |-> t,
        target |-> g, reads |-> rs, ub |-> u ] :
        f \in {"consensus", "single"},
        n \in (1..SmallCount) \cup {LargeCount},
        t \in 0..SmallCount, g \in {0, 1}, rs \in SeqsUpTo(SigReads, MaxSigInputs),
        u \in {"sllw", "sll"} }

SigInit ==
    /\ sig_in \in { a \in SigArgs :
                      /\ a.aggregator_change_threshold <= a.identity_count
                      /\ a.target < a.identity_count
                      /\ a.fn = "single" =>
                            a.aggregator_change_threshold = 0 /\ a.ub = "sllw"
                      /\ a.fn = "consensus" => a.target = 0 }
    /\ sig = SigStart
    /\ codec_tuple = NoTuple
    /\ codec_buf = <<>>
    /\ codec_out = CodecIdle
    /\ MainIdle
    /\ MoreIdle

ConsensusIteration ==
    /\ sig_in.fn = "consensus"
    /\ ~sig.done
    /\ sig' = consensus_iteration(sig, sig_in, sig_in.reads, sig_in.ub)
    /\ UNCHANGED <<more_vars, codec_vars, sig_in, main_vars>>

SingleIteration ==
    /\ sig_in.fn = "single"
    /\ ~sig.done
    /\ sig' = single_iteration(sig,
                 IdentityAt(sig_in.identity_buffer, sig_in.identity_size,
                            sig_in.target),
                 sig_in.identity_size, sig_in.reads)
    /\ UNCHANGED <<more_vars, codec_vars, sig_in, main_vars>>

SigNext == ConsensusIteration \/ SingleIteration

SpecSig == SigInit /\ [][SigNext]_vars

----------------------------------------------------------------------------
(* The validator: main() on one transaction, one step per stretch of main  *)
(* between two reads of the transaction.  What a step reads is drawn when  *)
(* main reads it; main stays at the step where it returned.                *)

\* The data of the Configuration cells on chain.  SetupK1: seconds,
\* 2 identities of 1 byte, threshold 2, interval 2, 2 subblocks per interval.
\* SetupK2: block numbers, 3 identities of 2 bytes, threshold 1, interval 1,
\* 1 subblock per interval.
SetupK1 == <<1, 1, 2, 2>> \o <<2, 0, 0, 0>> \o <<2, 0, 0, 0>> \o <<1, 2>>
SetupK2 ==
    <<0, 2, 3, 1>> \o <<1, 0, 0, 0>> \o <<1, 0, 0, 0>> \o <<1, 0, 2, 0, 3, 0>>

\* SetupK0: seconds, no identity at all, threshold 0, interval 1,
\* 1 subblock per interval.
SetupK0 == <<1, 1, 0, 0>> \o <<1, 0, 0, 0>> \o <<1, 0, 0, 0>>

ChainSetups == { SetupK0, SetupK1, SetupK2 }

\* The RoundStates on chain: a round begun at 0..MaxPrevTime, its last
\* subblock at that time or one later.
PrevStates ==
    { r \in [ round_initial_subtime : 0..MaxPrevTime,
              subblock_subtime      : 0..(MaxPrevTime + 1),
              subblock_index        : 0..1,
              aggregator_index      : 0..2 ] :
        /\ r.round_initial_subtime <= r.subblock_subtime
        /\ r.subblock_subtime <= r.round_initial_subtime + 1 }

\* The data of a state_ref cell that holds 23 bytes.
LongState ==
    RoundStateData([ round_initial_subtime |-> 0, subblock_subtime |-> 0,
                     subblock_index |-> 0, aggregator_index |-> 0 ]) \o <<0>>

\* The RoundStates a transaction may write.
NextStates ==
    [ round_initial_subtime : 0..MaxTime,
      subblock_subtime      : 0..MaxTime,
      subblock_index        : 0..2,
      aggregator_index      : 0..2 ]

StateDatas ==
    { RoundStateData(r) : r \in NextStates }
        \cup { SubSeq(RoundStateData(r), 1, 21) :
                 r \in { n \in NextStates : n.subblock_subtime = 0
                                            /\ n.round_initial_subtime = 0
                                            /\ n.subblock_index = 0
                                            /\ n.aggregator_index = 0 } }

\* The Configurations a transaction may write: the two above, and one cut.
SetupDatas ==
    ChainSetups \cup { SubSeq(SetupK1, 1, 13) }

\* Absolute block number, absolute epoch, absolute timestamp, relative
\* block number.
SinceFlags == {0, 32, 64, 128}
Sinces == [flag : SinceFlags, value : 0..MaxTime]

CellN == NoType
CellC == TypeId("config_ref")
CellS == TypeId("state_ref")

\* A read of a cell's type script that fails.
CellF == [ret |-> CKB_LENGTH_NOT_ENOUGH, len |-> 0, prefix |-> "none",
          args |-> "none"]

DepSides == { <<>>, <<CellN>>, <<CellC>>, <<CellC, CellC>>, <<CellF, CellC>> }
InputSides == { <<CellN>>, <<CellS, CellN>>, <<CellS, CellC>>,
                <<CellC, CellN>>, <<CellS, CellS>>, <<CellC, CellC>> }
OutputSides == { <<>>, <<CellS>>, <<CellC>>, <<CellS, CellS>>,
                 <<CellC, CellC>> }
ArgsLens == {32, 64, 96}

MainLocks == { ReadOk(1), ReadOk(2), ReadOk(9), ReadFails }

RECURSIVE SeqsOfLen(_, _)
SeqsOfLen(S, n) ==
    IF n = 0 THEN { <<>> }
    ELSE { q \o <<x>> : q \in SeqsOfLen(S, n - 1), x \in S }

\* ckb_load_cell(NULL, &len, 0, index, CKB_SOURCE_GROUP_INPUT / _OUTPUT) on
\* a group of count cells.
LoadGroupCell(count, index) ==
    IF index < count THEN CKB_SUCCESS ELSE CKB_INDEX_OUT_OF_BOUND

\* The group check passes whatever the group holds.
GroupHasSecondNever(count) == FALSE

\* ret != CKB_INDEX_OUT_OF_BOUND for the load of the group's cell 1.
GroupHasSecond(count) == LoadGroupCell(count, 1) /= CKB_INDEX_OUT_OF_BOUND

Init ==
    /\ cfg_data \in ChainSetups
    /\ prev_data \in { RoundStateData(r) : r \in PrevStates } \cup { LongState }
    /\ tx = TxUnread
    /\ poa_setup = NoSetup
    /\ pc = "groups"
    /\ ret = NO_RET
    /\ codec_tuple = NoTuple
    /\ codec_buf = <<>>
    /\ codec_out = CodecIdle
    /\ sig_in = SigInIdle
    /\ sig = SigIdle
    /\ MoreIdle

Return(code) == ret' = code /\ pc' = pc
Goto(step) == pc' = step /\ ret' = ret
Running(step) == pc = step /\ ret = NO_RET

\* Lines 208-220: one cell of the group on each side.
CheckGroups ==
    /\ Running("groups")
    /\ \E gi \in 1..MaxGroup :
         IF GroupHasSecond(gi)
         THEN /\ tx' = [tx EXCEPT !.group_inputs = gi]
              /\ Return(ERROR_TRANSACTION)
         ELSE \E go \in 0..MaxGroup :
                /\ tx' = [tx EXCEPT !.group_inputs = gi, !.group_outputs = go]
                /\ IF GroupHasSecond(go)
                   THEN Return(ERROR_TRANSACTION)
                   ELSE Goto("script")
    /\ UNCHANGED <<more_vars, codec_vars, sig_vars, cfg_data, prev_data, poa_setup>>

\* Lines 222-243: the script (53 bytes and its args) must fit the buffer and
\* carry 64 bytes of args.
LoadScript ==
    /\ Running("script")
    /\ \E n \in ArgsLens :
         /\ tx' = [tx EXCEPT !.args_len = n]
         /\ IF 53 + n > SCRIPT_BUFFER_SIZE THEN Return(CKB_LENGTH_NOT_ENOUGH)
            ELSE IF n /= 64 THEN Return(ERROR_ENCODING)
            ELSE Goto("dispatch")
    /\ UNCHANGED <<more_vars, codec_vars, sig_vars, cfg_data, prev_data, poa_setup>>

\* Lines 245-268: the Configuration among the dependencies, or consensus
\* mode.
Dispatch ==
    /\ Running("dispatch")
    /\ \E deps \in DepSides :
         LET found == look_for_poa_cell("config_ref", deps) IN
         /\ tx' = [tx EXCEPT !.deps = deps]
         /\ IF found.ret /= CKB_INDEX_OUT_OF_BOUND /\ found.ret /= CKB_SUCCESS
            THEN Return(found.ret) /\ UNCHANGED poa_setup
            ELSE IF found.ret = CKB_SUCCESS
            THEN IF Len(cfg_data) > POA_BUFFER_SIZE
                 THEN Return(ERROR_ENCODING) /\ UNCHANGED poa_setup
                 ELSE LET parsed == parse_poa_setup(cfg_data) IN
                      IF parsed.ret /= CKB_SUCCESS
                      THEN Return(parsed.ret) /\ UNCHANGED poa_setup
                      ELSE Goto("A_prev") /\ poa_setup' = parsed.setup
            ELSE Goto("B_old") /\ UNCHANGED poa_setup
    /\ UNCHANGED <<more_vars, codec_vars, sig_vars, cfg_data, prev_data>>

\* Lines 270-287: the RoundState among the inputs.
LoadPrev ==
    /\ Running("A_prev")
    /\ \E inputs \in InputSides :
         LET found == look_for_poa_cell("state_ref", inputs) IN
         /\ tx' = [tx EXCEPT !.inputs = inputs]
         /\ IF found.ret /= CKB_SUCCESS THEN Return(found.ret)
            ELSE IF Len(prev_data) /= 22 THEN Return(ERROR_ENCODING)
            ELSE Goto("A_next")
    /\ UNCHANGED <<more_vars, codec_vars, sig_vars, cfg_data, prev_data, poa_setup>>

\* Lines 289-325: the RoundState among the outputs, and its aggregator.
LoadNext ==
    /\ Running("A_next")
    /\ \E outputs \in OutputSides :
         LET found == look_for_poa_cell("state_ref", outputs) IN
         IF found.ret /= CKB_SUCCESS
         THEN tx' = [tx EXCEPT !.outputs = outputs] /\ Return(found.ret)
         ELSE \E data \in StateDatas :
                /\ tx' = [tx EXCEPT !.outputs = outputs, !.out_data = data]
                /\ IF Len(data) /= 22 THEN Return(ERROR_ENCODING)
                   ELSE IF aggregator_index_check(poa_setup, RoundState(data))
                              /= CKB_SUCCESS
                   THEN Return(ERROR_ENCODING)
                   ELSE Goto("A_since")
    /\ UNCHANGED <<more_vars, codec_vars, sig_vars, cfg_data, prev_data, poa_setup>>

\* Lines 327-404: the since of the group's input and the transition.
CheckSince ==
    /\ Running("A_since")
    /\ \E since \in Sinces :
         LET last == RoundState(prev_data)
             current == RoundState(tx.out_data)
         IN /\ tx' = [tx EXCEPT !.since = since]
            /\ IF since_check(poa_setup, since, current) /= CKB_SUCCESS
               THEN Return(ERROR_ENCODING)
               ELSE IF transition_check(poa_setup, last, current, since)
                          /= CKB_SUCCESS
               THEN Return(ERROR_ENCODING)
               ELSE Goto("A_sign")
    /\ UNCHANGED <<more_vars, codec_vars, sig_vars, cfg_data, prev_data, poa_setup>>

\* Lines 406-409: the aggregator in turn signs.
SignSingle ==
    /\ Running("A_sign")
    /\ \E locks \in SeqsOfLen(MainLocks, Len(tx.inputs)) :
         /\ tx' = [tx EXCEPT !.locks = locks]
         /\ Return(validate_single_signing(
                IdentityAt(poa_setup.identities, poa_setup.identity_size,
                           RoundState(tx.out_data).aggregator_index),
                poa_setup.identity_size, locks))
    /\ UNCHANGED <<more_vars, codec_vars, sig_vars, cfg_data, prev_data, poa_setup>>

\* Lines 412-434: the Configuration among the inputs.
LoadOldSetup ==
    /\ Running("B_old")
    /\ \E inputs \in InputSides :
         LET found == look_for_poa_cell("config_ref", inputs) IN
         /\ tx' = [tx EXCEPT !.inputs = inputs]
         /\ IF found.ret /= CKB_SUCCESS
            THEN Return(found.ret) /\ UNCHANGED poa_setup
            ELSE IF Len(cfg_data) > POA_BUFFER_SIZE
            THEN Return(ERROR_ENCODING) /\ UNCHANGED poa_setup
            ELSE LET parsed == parse_poa_setup(cfg_data) IN
                 IF parsed.ret /= CKB_SUCCESS
                 THEN Return(parsed.ret) /\ UNCHANGED poa_setup
                 ELSE Goto("B_new") /\ poa_setup' = parsed.setup
    /\ UNCHANGED <<more_vars, codec_vars, sig_vars, cfg_data, prev_data>>

\* Lines 436-458: the new Configuration among the outputs.
LoadNewSetup ==
    /\ Running("B_new")
    /\ \E outputs \in OutputSides :
         LET found == look_for_poa_cell("config_ref", outputs) IN
         IF found.ret /= CKB_SUCCESS
         THEN tx' = [tx EXCEPT !.outputs = outputs] /\ Return(found.ret)
         ELSE \E data \in SetupDatas :
                /\ tx' = [tx EXCEPT !.outputs = outputs, !.out_data = data]
                /\ IF Len(data) > POA_BUFFER_SIZE THEN Return(ERROR_ENCODING)
                   ELSE LET parsed == parse_poa_setup(data) IN
                        IF parsed.ret /= CKB_SUCCESS THEN Return(parsed.ret)
                        ELSE Goto("B_sign")
    /\ UNCHANGED <<more_vars, codec_vars, sig_vars, cfg_data, prev_data, poa_setup>>

\* Lines 460-462: the threshold of the old Configuration signs.
SignConsensus ==
    /\ Running("B_sign")
    /\ \E locks \in SeqsOfLen(MainLocks, Len(tx.inputs)),
          ub \in {"sllw", "sll"} :
         /\ tx' = [tx EXCEPT !.locks = locks]
         /\ Return(validate_consensus_signing(
                [ identity_buffer |-> poa_setup.identities,
                  identity_size |-> poa_setup.identity_size,
                  identity_count |-> poa_setup.aggregator_number,
                  aggregator_change_threshold |->
                      poa_setup.aggregator_change_threshold ],
                locks, ub))
    /\ UNCHANGED <<more_vars, codec_vars, sig_vars, cfg_data, prev_data, poa_setup>>

Next ==
    \/ CheckGroups \/ LoadScript \/ Dispatch
    \/ LoadPrev \/ LoadNext \/ CheckSince \/ SignSingle
    \/ LoadOldSetup \/ LoadNewSetup \/ SignConsensus

Spec == Init /\ [][Next]_vars

----------------------------------------------------------------------------
(* A chain of block productions under one Configuration: each step is a    *)
(* transaction with the Configuration among its dependencies and the       *)
(* RoundState cell among its inputs and outputs, which main accepts; its   *)
(* output RoundState is the input of the next.                             *)

\* Times of a chain are 0..MaxChainTime, it starts at 0..MaxStartTime.
MaxChainTime == 3
MaxStartTime == 1
\* 1..MaxChainCount aggregators, intervals 0..MaxInterval, 0..MaxPerRound
\* subblocks per interval; a round is followed for one subblock more than
\* MaxPerRound.
MaxChainCount == 3
MaxInterval == 2
MaxPerRound == 2

\* The data of a Configuration cell: timestamps (seconds = 1) or block
\* numbers (0), n one-byte identities 1..n, threshold 1.
ChainConfigData(seconds, n, interval, spi) ==
    <<seconds, 1, n, 1>> \o <<interval, 0, 0, 0>> \o <<spi, 0, 0, 0>>
    \o [i \in 1..n |-> i]

ChainConfigs ==
    { parse_poa_setup(ChainConfigData(s, n, i, p)).setup :
        s \in {0, 1}, n \in 1..MaxChainCount, i \in 0..MaxInterval,
        p \in 0..MaxPerRound }

\* The first RoundState of a chain: a round that begins.
ChainStarts(setup) ==
    { r \in [ round_initial_subtime : 0..MaxStartTime,
              subblock_subtime      : 0..MaxStartTime,
              subblock_index        : {0},
              aggregator_index      : 0..(MaxChainCount - 1) ] :
        /\ r.subblock_subtime = r.round_initial_subtime
        /\ r.aggregator_index < setup.aggregator_number }

\* The RoundStates of subblock_subtime time a transaction may write.
ChainNextStates(time) ==
    [ round_initial_subtime : 0..MaxChainTime,
      subblock_subtime      : {time},
      subblock_index        : 0..MaxPerRound,
      aggregator_index      : 0..MaxChainCount ]

ChainSinces == [flag : {0, SINCE_TIMESTAMP}, value : 0..MaxChainTime]

\* The transaction's inputs: one signed by the aggregator of next, or one
\* signed by somebody else.
ChainLocks(next) ==
    { <<ReadOk(next.aggregator_index + 1)>>, <<ReadOk(9), ReadOk(9)>> }

ChainInit ==
    /\ \E c \in ChainConfigs :
         \E g \in ChainStarts(c) :
            chain = [ on |-> TRUE, setup |-> c, last |-> g, state |-> g,
                      since |-> [flag |-> 0, value |-> 0],
                      accepted |-> FALSE, count |-> 0 ]
    /\ loc_in = LocInIdle
    /\ loc_out = LocOutIdle
    /\ gen_in = GenInIdle
    /\ gen_out = GenOutIdle
    /\ wide = WideIdle
    /\ codec_tuple = NoTuple
    /\ codec_buf = <<>>
    /\ codec_out = CodecIdle
    /\ sig_in = SigInIdle
    /\ sig = SigIdle
    /\ MainIdle

\* main accepts a block production on top of the chain.  The since checks
\* read only subblock_subtime of the new RoundState: they are evaluated
\* as soon as the since and that field are drawn.
ChainStep ==
    /\ chain.on
    /\ chain.count <= MaxPerRound
    /\ \E since \in ChainSinces, time \in 0..MaxChainTime :
         /\ since_check(chain.setup, since, [subblock_subtime |-> time])
               = CKB_SUCCESS
         /\ \E next \in ChainNextStates(time) :
              \E locks \in ChainLocks(next) :
                 /\ block_production(chain.setup, chain.state, next, since,
                                     locks) = CKB_SUCCESS
                 /\ chain' = [ chain EXCEPT
                       !.last = chain.state,
                       !.state = next,
                       !.since = since,
                       !.accepted = TRUE,
                       !.count =
                          IF /\ next.round_initial_subtime
                                  = chain.state.round_initial_subtime
                             /\ next.aggregator_index
                                  = chain.state.aggregator_index
                          THEN chain.count + 1 ELSE 1 ]
    /\ UNCHANGED <<loc_vars, gen_vars, wide, codec_vars, sig_vars, main_vars>>

ChainNext == ChainStep

SpecChain == ChainInit /\ [][ChainNext]_vars

----------------------------------------------------------------------------
(* The off-chain generator (generator.ts): PoAGenerator's two methods on   *)
(* what _queryPoAInfos returns for the tip cell: the Configuration, the    *)
(* RoundState on chain and the index of the generator's own identity.      *)

\* Median times are 0..MaxGenTime.
MaxGenTime == 4

\* poaSetup.identities.length
IdentitiesLength(poaSetup) ==
    IF poaSetup.identity_size = 0 THEN poaSetup.aggregator_number
    ELSE Len(poaSetup.identities) \div poaSetup.identity_size

\* The condition of "New block in current round", the same in both methods.
InCurrentRound(medianTime, poaData, poaSetup) ==
    /\ medianTime < poaData.round_initial_subtime + poaSetup.subblock_intervals
    /\ poaData.subblock_index + 1 < poaSetup.subblocks_per_interval

\* async shouldIssueNewBlock(medianTimeHex, tipCell)
shouldIssueNewBlock(medianTime, poaData, poaSetup, aggregatorIndex) ==
    IF InCurrentRound(medianTime, poaData, poaSetup) THEN "YesIfFull"
    ELSE LET steps == (aggregatorIndex + IdentitiesLength(poaSetup)
                         - poaData.aggregator_index)
                        % IdentitiesLength(poaSetup)
         IN IF medianTime >= poaData.round_initial_subtime
                               + poaSetup.subblock_intervals * steps
            THEN "Yes"
            ELSE "No"

\* fixTransactionSkeleton: the RoundState of the output cell.
newPoAData(medianTime, poaData, poaSetup, aggregatorIndex) ==
    IF InCurrentRound(medianTime, poaData, poaSetup)
    THEN [ round_initial_subtime |-> poaData.round_initial_subtime,
           subblock_subtime      |-> poaData.subblock_subtime + 1,
           subblock_index        |-> poaData.subblock_index + 1,
           aggregator_index      |-> poaData.aggregator_index ]
    ELSE [ round_initial_subtime |-> medianTime,
           subblock_subtime      |-> medianTime,
           subblock_index        |-> 0,
           aggregator_index      |-> aggregatorIndex ]

\* since.generateSince({relative: false, type: "blockTimestamp", value}):
\* the absolute timestamp flag over the value.
generateSince(value) == [flag |-> SINCE_TIMESTAMP, value |-> value]

\* What _queryPoAInfos returns: a Configuration in seconds (it throws on the
\* others), a RoundState a chain of accepted transactions can hold, the
\* index of an identity of the Configuration; the median time is not
\* earlier than the time the RoundState was committed with.
GenInputs ==
    { [ on |-> TRUE, poaSetup |-> c, poaData |-> d, aggregatorIndex |-> a,
        medianTime |-> m ] :
        c \in { k \in ChainConfigs : k.interval_uses_seconds = 1 },
        d \in [ round_initial_subtime : 0..MaxStartTime,
                subblock_subtime      : 0..(MaxStartTime + MaxInterval),
                subblock_index        : 0..MaxPerRound,
                aggregator_index      : 0..(MaxChainCount - 1) ],
        a \in 0..(MaxChainCount - 1), m \in 0..MaxGenTime }

GenInit ==
    /\ gen_in \in
         { g \in GenInputs :
             /\ g.aggregatorIndex < g.poaSetup.aggregator_number
             /\ g.poaData.aggregator_index < g.poaSetup.aggregator_number
             /\ g.poaData.round_initial_subtime <= g.poaData.subblock_subtime
             /\ \/ g.poaData.subblock_subtime
                     = g.poaData.round_initial_subtime
                \/ g.poaData.subblock_subtime
                     < g.poaData.round_initial_subtime
                         + g.poaSetup.subblock_intervals
             /\ \/ g.poaData.subblock_index = 0
                \/ g.poaData.subblock_index
                     < g.poaSetup.subblocks_per_interval
             /\ g.medianTime >= g.poaData.subblock_subtime }
    /\ gen_out = [ done |-> FALSE, state |-> "none", built |-> FALSE,
                   data |-> gen_in.poaData,
                   since |-> [flag |-> 0, value |-> 0] ]
    /\ loc_in = LocInIdle
    /\ loc_out = LocOutIdle
    /\ chain = ChainIdle
    /\ wide = WideIdle
    /\ codec_tuple = NoTuple
    /\ codec_buf = <<>>
    /\ codec_out = CodecIdle
    /\ sig_in = SigInIdle
    /\ sig = SigIdle
    /\ MainIdle

ShouldIssueNewBlock ==
    /\ gen_in.on
    /\ gen_out.state = "none"
    /\ gen_out' = [ gen_out EXCEPT
          !.state = shouldIssueNewBlock(gen_in.medianTime, gen_in.poaData,
                                        gen_in.poaSetup,
                                        gen_in.aggregatorIndex),
          !.done = gen_out.built ]
    /\ UNCHANGED <<gen_in, loc_vars, chain, wide, codec_vars, sig_vars, main_vars>>

FixTransactionSkeleton ==
    /\ gen_in.on
    /\ ~gen_out.built
    /\ LET new == newPoAData(gen_in.medianTime, gen_in.poaData,
                             gen_in.poaSetup, gen_in.aggregatorIndex)
       IN gen_out' = [ gen_out EXCEPT
             !.built = TRUE,
             !.data = new,
             !.since = generateSince(new.subblock_subtime),
             !.done = gen_out.state /= "none" ]
    /\ UNCHANGED <<gen_in, loc_vars, chain, wide, codec_vars, sig_vars, main_vars>>

GenNext == ShouldIssueNewBlock \/ FixTransactionSkeleton

SpecGen == GenInit /\ [][GenNext]_vars

----------------------------------------------------------------------------
(* One block production at the width of the code: the Configuration and    *)
(* the RoundState on chain are given, main reads the output RoundState     *)
(* and the since (lines 289-355), then applies the transition rules        *)
(* (lines 362-404).  Values are drawn from the ends of the ranges.         *)

WideTimes == { Word(0), Word(1), WordMax56 }
WideIndices == { Word(0), Word(1), WordMax32 }

\* Configurations in seconds: 1, 2 or 255 one-byte identities.
WideSetups ==
    { [ interval_uses_seconds |-> 1, identity_size |-> 1,
        aggregator_number |-> n, aggregator_change_threshold |-> 1,
        subblock_intervals |-> i, subblocks_per_interval |-> p,
        identities |-> [k \in 1..n |-> k] ] :
        n \in {1, 2, 255}, i \in {Word(0), Word(1), WordMax32},
        p \in {Word(0), Word(1), WordMax32} }

\* The RoundState on chain: any 22 bytes the first cell was created with,
\* or the output of an accepted transaction.
WideLasts ==
    { [ round_initial_subtime |-> t, subblock_subtime |-> t,
        subblock_index |-> x, aggregator_index |-> a ] :
        t \in WideTimes \cup { WordMax64 },
        x \in { Word(0), WordMax32Less1, WordMax32 }, a \in {0, 1} }

\* The RoundState a transaction writes.
WideCurrents ==
    [ round_initial_subtime : WideTimes, subblock_subtime : WideTimes,
      subblock_index : WideIndices, aggregator_index : {0, 1} ]

\* The since of the input: a top byte over 56 bits.
WideSinces ==
    { <<v[1], v[2], v[3], v[4] + 256 * f>> :
        v \in WideTimes, f \in {0, SINCE_TIMESTAMP} }

WideInit ==
    /\ \E c \in WideSetups, l \in WideLasts :
         wide = [ on |-> TRUE, step |-> "load", setup |-> c, last |-> l,
                  current |-> l, since |-> Word(0), ret |-> NO_RET ]
    /\ loc_in = LocInIdle
    /\ loc_out = LocOutIdle
    /\ chain = ChainIdle
    /\ gen_in = GenInIdle
    /\ gen_out = GenOutIdle
    /\ codec_tuple = NoTuple
    /\ codec_buf = <<>>
    /\ codec_out = CodecIdle
    /\ sig_in = SigInIdle
    /\ sig = SigIdle
    /\ MainIdle

\* Lines 289-355: the output RoundState and the since are read and checked.
WideLoad ==
    /\ wide.on /\ wide.step = "load"
    /\ \E current \in WideCurrents, since \in WideSinces :
         wide' = [ wide EXCEPT
            !.current = current,
            !.since = since,
            !.step = IF \/ aggregator_index_check(wide.setup, current)
                             /= CKB_SUCCESS
                        \/ since_check_word(wide.setup, since, current)
                             /= CKB_SUCCESS
                     THEN "done" ELSE "transition",
            !.ret = IF \/ aggregator_index_check(wide.setup, current)
                            /= CKB_SUCCESS
                       \/ since_check_word(wide.setup, since, current)
                            /= CKB_SUCCESS
                    THEN ERROR_ENCODING ELSE NO_RET ]
    /\ UNCHANGED <<loc_vars, chain, gen_vars, codec_vars, sig_vars, main_vars>>

\* Lines 362-404: the two supporting modes.
WideTransition ==
    /\ wide.on /\ wide.step = "transition"
    /\ wide' = [ wide EXCEPT
          !.step = "done",
          !.ret = timing_word(wide.setup, wide.last, wide.current,
                              wide.since) ]
    /\ UNCHANGED <<loc_vars, chain, gen_vars, codec_vars, sig_vars, main_vars>>

WideNext == WideLoad \/ WideTransition

SpecWidth == WideInit /\ [][WideNext]_vars

----------------------------------------------------------------------------
(* What the claims speak of.                                               *)

Returned == ret /= NO_RET
Accepted == ret = CKB_SUCCESS
\* Block production and consensus mode, any side read further on.
AcceptedA == pc = "A_sign" /\ Accepted
AcceptedB == pc = "B_sign" /\ Accepted
SinceWasRead == (pc = "A_since" /\ Returned) \/ pc = "A_sign"

Prev == RoundState(prev_data)
NextState == RoundState(tx.out_data)
OldSetup == parse_poa_setup(cfg_data).setup

\* Identity i of a Configuration, byte by byte.
IdentityBytes(setup, i) ==
    [j \in 1..setup.identity_size |->
        setup.identities[i * setup.identity_size + j]]

\* Input k was read and its lock hash, cut to identity_size, is identity i.
Signs(setup, locks, k, i) ==
    /\ locks[k].ret = CKB_SUCCESS
    /\ [j \in 1..setup.identity_size |-> locks[k].hash[j]]
          = IdentityBytes(setup, i)

\* The identities of setup that some input among the first upto signs.
Signers(setup, locks, upto) ==
    { i \in 0..(setup.aggregator_number - 1) :
        \E k \in 1..upto : Signs(setup, locks, k, i) }

ConfigConsumed ==
    \E k \in 1..Len(tx.inputs) :
        /\ tx.inputs[k].ret = CKB_SUCCESS
        /\ tx.inputs[k].len = 85
        /\ tx.inputs[k].prefix = "type_id"
        /\ tx.inputs[k].args = "config_ref"

\* C1: every accepted transaction that consumes the Configuration cell has
\* inputs signing for at least change_threshold distinct identities of the
\* old Configuration, whatever the dependencies hold.
C1_ChangeNeedsThreshold ==
    (Accepted /\ ConfigConsumed) =>
        Cardinality(Signers(OldSetup, tx.locks, Len(tx.locks)))
            >= OldSetup.aggregator_change_threshold

\* C2: an accepted block production has an input signing for the identity
\* of next.aggregator_index; the single check accepts iff an input it reads
\* signs, returns the read error of an input that fails before that, and
\* rejects when all inputs are read and none signs.
C2_SingleSigning ==
    (pc = "A_sign" /\ Returned) =>
        LET a == NextState.aggregator_index
            n == Len(tx.locks)
            signs(k) == Signs(poa_setup, tx.locks, k, a)
            fails(k) == tx.locks[k].ret /= CKB_SUCCESS
            hit == { k \in 1..n : signs(k) /\ \A j \in 1..(k - 1) : ~fails(j) }
            err == { k \in 1..n : fails(k)
                        /\ \A j \in 1..(k - 1) : ~fails(j) /\ ~signs(j) }
        IN /\ Accepted <=> hit /= {}
           /\ Accepted => \E k \in 1..n : signs(k)
           /\ \A k \in err : ret = tx.locks[k].ret
           /\ (hit = {} /\ err = {}) => ret = ERROR_ENCODING

C2_Witness ==
    /\ AcceptedA
    /\ Len(tx.locks) = 2
    /\ ~Signs(poa_setup, tx.locks, 1, NextState.aggregator_index)
    /\ Signs(poa_setup, tx.locks, 2, NextState.aggregator_index)
    /\ poa_setup.identity_size = 2

\* C3: an accepted block production whose since is earlier than
\* prev.round_initial_time + subblock_interval keeps the round, its
\* aggregator and its start, does not go back in time and takes the next
\* subblock index, below subblocks_per_interval.
C3_SameRound ==
    (AcceptedA /\ tx.since.value
                    < Prev.round_initial_subtime + poa_setup.subblock_intervals)
    => /\ NextState.round_initial_subtime = Prev.round_initial_subtime
       /\ NextState.subblock_subtime >= Prev.subblock_subtime
       /\ NextState.aggregator_index = Prev.aggregator_index
       /\ NextState.subblock_index = Prev.subblock_index + 1
       /\ NextState.subblock_index < poa_setup.subblocks_per_interval

C3_Witness ==
    /\ AcceptedA
    /\ tx.since.value < Prev.round_initial_subtime + poa_setup.subblock_intervals
    /\ NextState.subblock_subtime > Prev.subblock_subtime
    /\ Prev.round_initial_subtime > 0

\* steps of C4 and C20, on the integers.
StepsOfClaim(next_index, count, prev_index) ==
    LET m == ((next_index + count) - prev_index) % count
    IN IF m = 0 THEN count ELSE m

C8_OneCellPerGroup ==
    /\ (Returned /\ (tx.group_inputs >= 2 \/ tx.group_outputs >= 2))
          => (pc = "groups" /\ ret = ERROR_TRANSACTION /\ tx.deps = <<>>)
    /\ (pc /= "groups" /\ pc /= "idle")
          => (tx.group_inputs = 1 /\ tx.group_outputs <= 1)
    /\ Accepted => (tx.group_inputs = 1 /\ tx.group_outputs <= 1)

C8_Witness ==
    /\ pc = "groups" /\ ret = ERROR_TRANSACTION
    /\ tx.group_inputs = 1 /\ tx.group_outputs = 2

\* The since format of the host: bit 63 of the value (bit 7 of the top byte)
\* says relative, bits 62-61 say the metric: 0 block number, 1 epoch, 2
\* timestamp.
SinceRelative(flag) == flag \div 128 = 1
SinceMetric(flag) == (flag \div 32) % 4

\* C9: once the time-lock check has passed, the since of the group's input
\* is an absolute timestamp when the Configuration uses seconds and an
\* absolute block number otherwise, and its value is next.subblock_time; a
\* relative lock, an epoch lock or another value is rejected there.
C9_TimeLock ==
    SinceWasRead =>
        LET fits == /\ ~SinceRelative(tx.since.flag)
                    /\ SinceMetric(tx.since.flag)
                          = (IF poa_setup.interval_uses_seconds = 1
                             THEN 2 ELSE 0)
                    /\ tx.since.flag % 32 = 0
                    /\ tx.since.value = NextState.subblock_subtime
        IN /\ pc = "A_sign" => fits
           /\ ~fits => (pc = "A_since" /\ ret = ERROR_ENCODING)

C9_Witness ==
    /\ AcceptedA
    /\ poa_setup.interval_uses_seconds = 0
    /\ tx.since.flag = 0
    /\ tx.since.value = 3

----------------------------------------------------------------------------
(* The threshold check.                                                    *)

SigSetup ==
    [ identity_size |-> sig_in.identity_size,
      identities |-> sig_in.identity_buffer,
      aggregator_number |-> sig_in.identity_count ]

\* The inputs the loop has been through.
SigScanned ==
    IF sig.done /\ sig.ret = CKB_SUCCESS THEN sig.current + 1 ELSE sig.current

AllReadsSucceed(reads) == \A k \in 1..Len(reads) : reads[k].ret = CKB_SUCCESS

\* The orders a list of inputs can come in.
OrdersOf(q) ==
    { [i \in 1..Len(q) |-> q[f[i]]] :
        f \in { g \in [1..Len(q) -> 1..Len(q)] :
                  \A i, j \in 1..Len(q) : g[i] = g[j] => i = j } }

\* C5: during a scan the count of credited identities never exceeds the
\* number of identities that some scanned input matches, whatever the
\* number of identities; and two identities with threshold 2 and inputs that
\* all match the first one reject.
C5_CreditedAtMostOnce ==
    sig_in.fn = "consensus" =>
        /\ sig.found <= Cardinality(Signers(SigSetup, sig_in.reads, SigScanned))
        /\ ( /\ sig.done
             /\ sig_in.identity_count = 2
             /\ sig_in.aggregator_change_threshold = 2
             /\ \A k \in 1..Len(sig_in.reads) :
                    Signs(SigSetup, sig_in.reads, k, 0) )
           => sig.ret /= CKB_SUCCESS

\* C6: the result of the threshold check is the same for every order of
\* the inputs.
C6_OrderIndependent ==
    (sig_in.fn = "consensus" /\ sig.done /\ AllReadsSucceed(sig_in.reads)) =>
        \A q \in OrdersOf(sig_in.reads) :
            validate_consensus_signing(sig_in, q, sig_in.ub) = sig.ret

\* C7: the threshold check accepts iff the number of identities matched by
\* some input is at least required_count, for every required_count from 0
\* on, and rejects otherwise.
C7_AcceptsIffThreshold ==
    (sig_in.fn = "consensus" /\ sig.done /\ AllReadsSucceed(sig_in.reads)) =>
        /\ sig.ret = CKB_SUCCESS
             <=> Cardinality(Signers(SigSetup, sig_in.reads, Len(sig_in.reads)))
                    >= sig_in.aggregator_change_threshold
        /\ sig.ret /= CKB_SUCCESS => sig.ret = ERROR_ENCODING

----------------------------------------------------------------------------
(* The decoder.                                                            *)

\* The 32-bit word at 0-based offset off of b, least significant byte first.
WordAt(b, off) ==
    b[off + 1] + 256 * b[off + 2] + 65536 * b[off + 3] + 16777216 * b[off + 4]

\* C10: parse_poa_setup succeeds iff the buffer has at least 12 bytes, an
\* identity size of at most 32, a threshold of at most the aggregator count
\* and exactly 12 + identity_size * aggregator_count bytes; the fields it
\* decodes are those at the fixed little-endian offsets, so the encoding of
\* a valid tuple decodes to the tuple.
C10_Decoding ==
    (codec_out.done /\ codec_tuple.cut /= "none") =>
        LET b == codec_buf
            n == Len(b)
            ok == IF n < 12 THEN FALSE
                  ELSE /\ b[2] <= 32
                       /\ b[4] <= b[3]
                       /\ n = 12 + b[2] * b[3]
            d == codec_out.setup
        IN /\ codec_out.ret = CKB_SUCCESS <=> ok
           /\ ~ok => codec_out.ret = ERROR_ENCODING
           /\ ok => /\ d.interval_uses_seconds = b[1] % 2
                    /\ d.identity_size = b[2]
                    /\ d.aggregator_number = b[3]
                    /\ d.aggregator_change_threshold = b[4]
                    /\ d.subblock_intervals = WordAt(b, 4)
                    /\ d.subblocks_per_interval = WordAt(b, 8)
                    /\ d.identities = [i \in 1..(n - 12) |-> b[12 + i]]
           /\ ( /\ codec_tuple.cut = "whole"
                /\ codec_tuple.identity_size <= 32
                /\ codec_tuple.aggregator_change_threshold
                      <= codec_tuple.aggregator_number )
              => /\ codec_out.ret = CKB_SUCCESS
                 /\ \A f \in { "interval_uses_seconds", "identity_size",
                               "aggregator_number",
                               "aggregator_change_threshold",
                               "subblock_intervals", "subblocks_per_interval" } :
                        d[f] = codec_tuple[f]
                 /\ d.identities = Fill(codec_tuple.identity_size
                                          * codec_tuple.aggregator_number)

C10_Witness ==
    /\ codec_out.done
    /\ codec_out.ret = CKB_SUCCESS
    /\ codec_tuple.cut = "whole"
    /\ codec_out.setup.identity_size = 32
    /\ codec_out.setup.aggregator_number = 2
    /\ codec_out.setup.subblock_intervals = 16909060
    /\ codec_out.setup.subblocks_per_interval = 66000

----------------------------------------------------------------------------
(* The cell locator.                                                       *)

\* Cell k (0-based) of the scanned side carries the 85-byte type-id script
\* whose last 32 bytes are the target.
LocMatches(k) ==
    LET r == loc_in.reads[k + 1] IN
    /\ r.ret = CKB_SUCCESS
    /\ r.len = 85
    /\ r.prefix = "type_id"
    /\ r.args = loc_in.type_id

\* The read of cell k's type script fails with something other than
\* item-missing (index-out-of-bound is what the host returns past the end).
LocFails(k) ==
    /\ loc_in.reads[k + 1].ret /= CKB_SUCCESS
    /\ loc_in.reads[k + 1].ret /= CKB_ITEM_MISSING

LocSide == 0..(Len(loc_in.reads) - 1)

\* C11: on a side whose reads all succeed or report a missing type script,
\* look_for_poa_cell returns the index of the matching cell when exactly
\* one cell matches, index-out-of-bound when none does, and an error when
\* more than one does; cells without a type script or with another script
\* are passed over.
C11_LocatorOutcomes ==
    (loc_out.done /\ loc_in /= LocInIdle /\ \A k \in LocSide : ~LocFails(k)) =>
        LET hits == { k \in LocSide : LocMatches(k) } IN
        /\ Cardinality(hits) = 1
              => (loc_out.ret = CKB_SUCCESS /\ loc_out.index \in hits)
        /\ hits = {} => loc_out.ret = CKB_INDEX_OUT_OF_BOUND
        /\ Cardinality(hits) > 1
              => (loc_out.ret /= CKB_SUCCESS
                  /\ loc_out.ret /= CKB_INDEX_OUT_OF_BOUND)

C11_Witness ==
    /\ loc_out.done
    /\ Len(loc_in.reads) = 3
    /\ loc_in.reads[1] = NoType
    /\ loc_in.reads[2] = OtherScript85
    /\ LocMatches(2)
    /\ loc_out.ret = CKB_SUCCESS
    /\ loc_out.index = 2

\* C12: when the read of a cell's type script fails with anything other
\* than item-missing or index-out-of-bound (and the scan has not met two
\* matches before it), look_for_poa_cell returns that failure: neither
\* index-out-of-bound nor the success of a match found earlier.
C12_LocatorPropagates ==
    (loc_out.done /\ loc_in /= LocInIdle) =>
        \A k \in LocSide :
            ( /\ LocFails(k)
              /\ \A j \in 0..(k - 1) : ~LocFails(j)
              /\ Cardinality({ j \in 0..(k - 1) : LocMatches(j) }) <= 1 )
            => loc_out.ret = loc_in.reads[k + 1].ret

----------------------------------------------------------------------------
(* Mode dispatch.                                                          *)

\* The cells of a side that carry the type-id script of ref.
CellsOf(side, ref) ==
    { k \in 1..Len(side) :
        /\ side[k].ret = CKB_SUCCESS
        /\ side[k].len = 85
        /\ side[k].prefix = "type_id"
        /\ side[k].args = ref }

Dispatched == pc \notin {"idle", "groups", "script"}
InModeA == pc \in {"A_prev", "A_next", "A_since", "A_sign"}
InModeB == pc \in {"B_old", "B_new", "B_sign"}

\* C13: block production is applied iff exactly one cell matching
\* config_ref is among the dependencies, the authority-set change when
\* none is, and two or more reject; an accepted block production has
\* exactly one cell matching state_ref among the inputs and among the
\* outputs, both of 22 bytes, an accepted change exactly one cell matching
\* config_ref among the inputs and among the outputs.
C13_ModeDispatch ==
    /\ (Dispatched /\ (pc /= "dispatch" \/ Returned)) =>
          LET n == Cardinality(CellsOf(tx.deps, "config_ref")) IN
          /\ InModeA <=> n = 1
          /\ InModeB <=> n = 0
          /\ n >= 2 => (pc = "dispatch" /\ ~Accepted)
    /\ AcceptedA =>
          /\ Cardinality(CellsOf(tx.inputs, "state_ref")) = 1
          /\ Cardinality(CellsOf(tx.outputs, "state_ref")) = 1
          /\ Len(prev_data) = 22
          /\ Len(tx.out_data) = 22
    /\ AcceptedB =>
          /\ Cardinality(CellsOf(tx.inputs, "config_ref")) = 1
          /\ Cardinality(CellsOf(tx.outputs, "config_ref")) = 1

----------------------------------------------------------------------------
(* Chains of block productions.                                            *)

\* The last step of the chain took the rollover branch: its since was not
\* earlier than the previous round's start plus one interval.
ChainRolledOver ==
    /\ chain.on /\ chain.accepted
    /\ chain.since.value >= chain.last.round_initial_subtime
                              + chain.setup.subblock_intervals

\* C14: along a chain the number of subblocks accepted within one round
\* (same round_initial_time and aggregator) never exceeds
\* subblocks_per_interval, whatever its value, 0 included.
C14_SubblocksPerRound ==
    chain.on => chain.count <= chain.setup.subblocks_per_interval

\* C15: a rollover accepted on top of aggregator a's round begun at T is
\* at since >= T + aggregator_count * subblock_interval when it is by a
\* again, and at since >= T + k * subblock_interval when it is by
\* aggregator (a + k) mod N, 1 <= k < N.
C15_FullCycle ==
    ChainRolledOver =>
        LET a == chain.last.aggregator_index
            b == chain.state.aggregator_index
            N == chain.setup.aggregator_number
            T == chain.last.round_initial_subtime
            interval == chain.setup.subblock_intervals
        IN /\ b = a => chain.since.value >= T + N * interval
           /\ \A k \in 1..(N - 1) :
                 b = (a + k) % N => chain.since.value >= T + k * interval

C15_Witness ==
    /\ ChainRolledOver
    /\ chain.state.aggregator_index = chain.last.aggregator_index
    /\ chain.setup.aggregator_number = 3
    /\ chain.setup.subblock_intervals = 1
    /\ chain.since.value = chain.last.round_initial_subtime + 3

\* The Configuration data that decode without error.
WellFormedSetups ==
    { d \in SetupDatas :
        Len(d) <= POA_BUFFER_SIZE /\ parse_poa_setup(d).ret = CKB_SUCCESS }

\* C16: whenever shouldIssueNewBlock answers "Yes" or "YesIfFull", the
\* RoundState and the since that fixTransactionSkeleton builds for the same
\* input pass the validator's range check of the aggregator index, its
\* since checks and its same-round or rollover checks.
C16_GeneratorMirrors ==
    (gen_in.on /\ gen_out.done /\ gen_out.state \in {"Yes", "YesIfFull"}) =>
        /\ aggregator_index_check(gen_in.poaSetup, gen_out.data) = CKB_SUCCESS
        /\ since_check(gen_in.poaSetup, gen_out.since, gen_out.data)
              = CKB_SUCCESS
        /\ transition_check(gen_in.poaSetup, gen_in.poaData, gen_out.data,
                            gen_out.since) = CKB_SUCCESS

\* C17: the result of an authority-set change is the same whatever
\* well-formed Configuration the output cell matching config_ref holds,
\* everything else of the transaction being the same; an accepted change
\* has exactly one such output cell and its data decode without error.
C17_NewContentFree ==
    /\ (pc = "B_sign" /\ Returned) =>
          /\ tx.out_data \in WellFormedSetups
          /\ \E ub \in {"sllw", "sll"} :
                \A d \in WellFormedSetups :
                   authority_change(cfg_data, tx.inputs, tx.outputs, d,
                                    tx.locks, ub) = ret
    /\ AcceptedB =>
          Cardinality(CellsOf(tx.outputs, "config_ref")) = 1

\* An accepted change of the authority set that writes a Configuration
\* other than the one it spends.
C17_Witness ==
    /\ AcceptedB
    /\ tx.out_data /= cfg_data
    /\ tx.out_data \in WellFormedSetups

\* C18: block production goes on to the rotation arithmetic and the signing
\* check only with the new aggregator_index below aggregator_count: an
\* index at or past the count is rejected where it is read, a Configuration
\* without aggregators accepts no block production, the divisor of the
\* rotation is not 0 and the identity compared by the signing check lies
\* inside the Configuration data that was read.
C18_IndexInRange ==
    /\ pc \in {"A_since", "A_sign"} =>
          /\ NextState.aggregator_index < poa_setup.aggregator_number
          /\ poa_setup.aggregator_number /= 0
          /\ (NextState.aggregator_index + 1) * poa_setup.identity_size
                <= Len(poa_setup.identities)
          /\ 12 + (NextState.aggregator_index + 1) * poa_setup.identity_size
                <= Len(cfg_data)
          /\ Len(cfg_data) <= POA_BUFFER_SIZE
    /\ (/\ pc = "A_next" /\ Returned /\ Len(tx.out_data) = 22
        /\ NextState.aggregator_index >= poa_setup.aggregator_number)
          => ret = ERROR_ENCODING
    /\ (InModeA /\ poa_setup.aggregator_number = 0) => ~Accepted

\* A Configuration without aggregators: the index 0 was rejected where it
\* was read.
C18_Witness ==
    /\ pc = "A_next" /\ ret = ERROR_ENCODING
    /\ Len(tx.out_data) = 22
    /\ poa_setup.aggregator_number = 0
    /\ NextState.aggregator_index = 0

\* C19: along a chain that starts with subblock_time = round_initial_time,
\* every RoundState has round_initial_time <= subblock_time, and
\* subblock_time = round_initial_time or subblock_time <
\* round_initial_time + subblock_interval; from each state to the next
\* neither subblock_time nor round_initial_time decreases.
C19_WellFormedTime ==
    chain.on =>
        /\ chain.state.round_initial_subtime <= chain.state.subblock_subtime
        /\ \/ chain.state.subblock_subtime = chain.state.round_initial_subtime
           \/ chain.state.subblock_subtime
                 < chain.state.round_initial_subtime
                     + chain.setup.subblock_intervals
        /\ chain.accepted =>
              /\ chain.last.subblock_subtime <= chain.state.subblock_subtime
              /\ chain.last.round_initial_subtime
                    <= chain.state.round_initial_subtime

\* A same-round step later than the round's start, in a round that began
\* with a rollover.
C19_Witness ==
    /\ chain.on /\ chain.accepted
    /\ chain.state.subblock_index = 1
    /\ chain.state.round_initial_subtime > MaxStartTime
    /\ chain.state.subblock_subtime > chain.state.round_initial_subtime
    /\ chain.state.subblock_subtime > chain.last.subblock_subtime

\* The rollover transaction of the claim by aggregator a at time v: the
\* since of the Configuration's kind, one input signed by identity[a],
\* alone or behind an input of somebody else.
ClaimRollovers(a, v) ==
    { [ next |-> [ round_initial_subtime |-> v, subblock_subtime |-> v,
                   subblock_index |-> 0, aggregator_index |-> a ],
        since |-> [ flag |-> IF chain.setup.interval_uses_seconds = 1
                             THEN SINCE_TIMESTAMP ELSE 0,
                    value |-> v ],
        locks |-> l ] :
        l \in { <<ReadOk(a + 1)>>, <<ReadOk(9), ReadOk(a + 1)>> } }

\* C20: from every RoundState an accepted transaction produced, under a
\* Configuration of one aggregator or more, every aggregator a is accepted
\* with a rollover at every since >= round_initial_time + steps(a) *
\* subblock_interval.
C20_NoDeadlock ==
    (chain.on /\ chain.accepted /\ chain.setup.aggregator_number >= 1) =>
        \A a \in 0..(chain.setup.aggregator_number - 1) :
          \A v \in 0..(MaxChainTime + MaxChainCount * MaxInterval) :
            v >= chain.state.round_initial_subtime
                   + StepsOfClaim(a, chain.setup.aggregator_number,
                                  chain.state.aggregator_index)
                       * chain.setup.subblock_intervals
            => \A t \in ClaimRollovers(a, v) :
                   block_production(chain.setup, chain.state, t.next,
                                    t.since, t.locks) = CKB_SUCCESS

\* The next aggregator took over at the very end of the interval of a
\* round whose aggregator had issued a second subblock.
C20_Witness ==
    /\ ChainRolledOver
    /\ chain.setup.aggregator_number >= 2
    /\ chain.setup.subblock_intervals >= 1
    /\ chain.last.subblock_index >= 1
    /\ chain.state.aggregator_index
          = (chain.last.aggregator_index + 1) % chain.setup.aggregator_number
    /\ chain.since.value = chain.last.round_initial_subtime
                             + chain.setup.subblock_intervals

----------------------------------------------------------------------------
(* The width of the arithmetic.                                            *)

\* The RoundState on chain is what the claim takes the output of an
\* accepted transaction to be: round_initial_time < 2^56 and
\* subblock_index < subblocks_per_interval.
WidePre ==
    /\ wide.on
    /\ LessWord(wide.last.round_initial_subtime, WordTwo56)
    /\ LessWord(wide.last.subblock_index, wide.setup.subblocks_per_interval)

\* The since main compares, once it is read.
WideSince == SinceMasked(wide.since)

\* since - prev.round_initial_time in uint64_t.
WideElapsed == Sub64(WideSince, wide.last.round_initial_subtime).val

\* The same-round sub-case as the code selects it and as elapsed does.
CodeSameRound == InSameRoundWord(wide.setup, wide.last, WideSince)
ElapsedSameRound == LessWord(WideElapsed, wide.setup.subblock_intervals)

\* None of round_initial_time + interval, steps * interval,
\* round_initial_time + steps * interval (steps 1 and aggregator_count, the
\* ends of its range, and the steps of the transaction) and
\* subblock_index + 1 wraps around.
WideNoWrap ==
    LET rit == wide.last.round_initial_subtime
        interval == wide.setup.subblock_intervals
    IN /\ Add64(rit, interval).carry = 0
       /\ \A k \in {1, wide.setup.aggregator_number} :
             /\ Mul64(k, interval).carry = 0
             /\ Add64(Mul64(k, interval).val, rit).carry = 0
       /\ wide.step = "done" /\ wide.ret = CKB_SUCCESS =>
             /\ DurationWord(wide.setup, wide.last, wide.current).carry = 0
             /\ Add64(DurationWord(wide.setup, wide.last, wide.current).val,
                      rit).carry = 0
       /\ Add32(wide.last.subblock_index, Word(1)).carry = 0

\* An accepted output RoundState has subblock_time < 2^56.
WideAcceptedTime ==
    (wide.on /\ wide.ret = CKB_SUCCESS) =>
        LessWord(wide.current.subblock_subtime, WordTwo56)

\* A word below 2^16 as an integer, a RoundState and a Configuration of
\* such words as those of the integers.
SmallWord(w) == w[2] = 0 /\ w[3] = 0 /\ w[4] = 0
SmallState(r) ==
    [ round_initial_subtime |-> r.round_initial_subtime[1],
      subblock_subtime |-> r.subblock_subtime[1],
      subblock_index |-> r.subblock_index[1],
      aggregator_index |-> r.aggregator_index ]
SmallSetup(c) ==
    [ c EXCEPT !.subblock_intervals = c.subblock_intervals[1],
               !.subblocks_per_interval = c.subblocks_per_interval[1] ]

\* On small values the checks on words return what the checks on the
\* integers return.
WideAgreesWithIntegers ==
    (/\ wide.on /\ wide.step = "done"
     /\ \A w \in { wide.last.round_initial_subtime,
                    wide.last.subblock_subtime, wide.last.subblock_index,
                    wide.current.round_initial_subtime,
                    wide.current.subblock_subtime,
                    wide.current.subblock_index, WideSince,
                    wide.setup.subblock_intervals,
                    wide.setup.subblocks_per_interval } : SmallWord(w))
    => LET setup == SmallSetup(wide.setup)
           last == SmallState(wide.last)
           current == SmallState(wide.current)
           since == [flag |-> SinceTopByte(wide.since), value |-> WideSince[1]]
       IN wide.ret =
            IF aggregator_index_check(setup, current) /= CKB_SUCCESS
            THEN ERROR_ENCODING
            ELSE IF since_check(setup, since, current) /= CKB_SUCCESS
            THEN ERROR_ENCODING
            ELSE transition_check(setup, last, current, since)

----------------------------------------------------------------------------
(* Short-circuit rejection.                                                *)

\* The scan of a side for ref performed a read of a type script that
\* failed: cell k is read when no read before it failed and fewer than two
\* cells before it matched.
ScanReadFailed(side, ref) ==
    \E k \in 1..Len(side) :
        /\ side[k].ret /= CKB_SUCCESS
        /\ side[k].ret /= CKB_ITEM_MISSING
        /\ \A j \in 1..(k - 1) :
              side[j].ret = CKB_SUCCESS \/ side[j].ret = CKB_ITEM_MISSING
        /\ Cardinality({ j \in CellsOf(side, ref) : j < k }) <= 1

\* validate_single_signing performed a read of a lock hash that failed:
\* input k is read when the reads before it succeeded and none of them
\* returned the identity.
SingleLockReadFailed ==
    /\ pc = "A_sign" /\ Returned
    /\ \E k \in 1..Len(tx.locks) :
          /\ tx.locks[k].ret /= CKB_SUCCESS
          /\ \A j \in 1..(k - 1) : tx.locks[j].ret = CKB_SUCCESS
          /\ validate_single_signing(
                 IdentityAt(poa_setup.identities, poa_setup.identity_size,
                            NextState.aggregator_index),
                 poa_setup.identity_size, SubSeq(tx.locks, 1, k - 1))
                /= CKB_SUCCESS

\* validate_consensus_signing performed a read of a lock hash that failed:
\* input k is read when the reads before it succeeded and did not reach the
\* threshold.
ConsensusLockReadFailed ==
    /\ pc = "B_sign" /\ Returned
    /\ \E k \in 1..Len(tx.locks) :
          /\ tx.locks[k].ret /= CKB_SUCCESS
          /\ \A j \in 1..(k - 1) : tx.locks[j].ret = CKB_SUCCESS
          /\ \A ub \in {"sllw", "sll"} :
                validate_consensus_signing(ConsensusArgs(poa_setup),
                                           SubSeq(tx.locks, 1, k - 1), ub)
                   /= CKB_SUCCESS

\* A host read on the path main has taken so far failed.
HostReadFailed ==
    \/ ScanReadFailed(tx.deps, "config_ref")
    \/ InModeA /\ ScanReadFailed(tx.inputs, "state_ref")
    \/ InModeA /\ ScanReadFailed(tx.outputs, "state_ref")
    \/ InModeB /\ ScanReadFailed(tx.inputs, "config_ref")
    \/ InModeB /\ ScanReadFailed(tx.outputs, "config_ref")
    \/ SingleLockReadFailed
    \/ ConsensusLockReadFailed

\* The checks before the dispatch passed on the transaction as read: one
\* cell of the script at most on either side, 64 bytes of args.
StructurePassed ==
    /\ ~GroupHasSecond(tx.group_inputs)
    /\ ~GroupHasSecond(tx.group_outputs)
    /\ 53 + tx.args_len <= SCRIPT_BUFFER_SIZE
    /\ tx.args_len = 64

\* The Configuration was found among the dependencies and decoded, and
\* every check of block production passed.
BlockProductionPassed ==
    /\ look_for_poa_cell("config_ref", tx.deps).ret = CKB_SUCCESS
    /\ Len(cfg_data) <= POA_BUFFER_SIZE
    /\ parse_poa_setup(cfg_data).ret = CKB_SUCCESS
    /\ poa_setup = parse_poa_setup(cfg_data).setup
    /\ look_for_poa_cell("state_ref", tx.inputs).ret = CKB_SUCCESS
    /\ Len(prev_data) = 22
    /\ look_for_poa_cell("state_ref", tx.outputs).ret = CKB_SUCCESS
    /\ Len(tx.out_data) = 22
    /\ block_production(poa_setup, Prev, NextState, tx.since, tx.locks)
          = CKB_SUCCESS

\* No Configuration was reported among the dependencies, and every check
\* of the change of the authority set passed.
AuthorityChangePassed ==
    /\ look_for_poa_cell("config_ref", tx.deps).ret = CKB_INDEX_OUT_OF_BOUND
    /\ \E ub \in {"sllw", "sll"} :
          authority_change(cfg_data, tx.inputs, tx.outputs, tx.out_data,
                           tx.locks, ub) = CKB_SUCCESS

\* What holds of every state of a validation that short-circuits: success
\* is returned at the end of a path all of whose checks passed, main is
\* past a check only when it passed, and a failing host read has ended the
\* validation with its result, which is not success.
ShortCircuitState ==
    /\ Accepted =>
          /\ pc \in {"A_sign", "B_sign"}
          /\ StructurePassed
          /\ AcceptedA => BlockProductionPassed
          /\ AcceptedB => AuthorityChangePassed
    /\ Dispatched => StructurePassed
    /\ HostReadFailed => (Returned /\ ~Accepted)

\* A step of main after a result is returned changes nothing of it, and a
\* step that goes on to the next check returns nothing.
ShortCircuitStep ==
    /\ Returned => (ret' = ret /\ pc' = pc)
    /\ pc' /= pc => ret' = NO_RET

\* C22: the validator returns success only when every check on its path
\* has passed; the first failing check (structural, args length other than
\* 64, decode, reference, time lock, transition or signing) or failing
\* host read ends the validation with a result other than success, and no
\* later step turns that into acceptance.
C22_ShortCircuit == []ShortCircuitState /\ [][ShortCircuitStep]_vars

====
